---- MODULE Spec2Model ----
(***************************************************************************)
(* Model of run() of the crdbpool tester (src/unnamed/part_001): the       *)
(* orchestrator, the reader stream and the writer stream, each stream a    *)
(* loop of rounds (top-of-round cancellation check, fan-out of C query     *)
(* invocations under a per-round errgroup, barrier, interruptible sleep),  *)
(* both run under one errgroup whose context gctx derives from the         *)
(* deadline context ctxRun.                                                *)
(***************************************************************************)
EXTENDS Integers, FiniteSets, Sequences, TLC

\* ---- bounds of the model ------------------------------------------------
MaxIterations == 2
MaxConc == 2

Streams == {"reader", "writer"}

VARIABLES
    cfg,          \* Config: Iterations, ReaderConc, WriterConc (validated, > 0)
    pcMain,       \* position of run(): health, rpool, wpool, launch, gwait, returned
    runResult,    \* what run() returned: "none" until it returns, "nil" or an error
    poll,         \* health poll goroutine: "none", "failed", "running", "stopped"
    ctxPollDone,  \* cancelPoll() was called
    pool,         \* pool[s]: "none", "failed", "open", "closed" (reader, writer pool)
    closeLog,     \* order in which the pools were closed
    gctxErr,      \* gctx.Err(): "none" while live, "deadline" or "canceled"
    gErr,         \* g.err of the outer errgroup: first non-nil stream error
    pc,           \* pc[s]: idle, ddl, check, fanout, wait, sleep, done
    i,            \* i[s]: loop variable of the stream's round loop
    j,            \* j[s]: loop variable of the fan-out loop
    inflight,     \* inflight[s]: invocations <<round, j>> dispatched and not finished
    grpErr,       \* grpErr[s]: err of the current round's errgroup
    grpCancelled, \* grpCancelled[s]: the round's own cancel() has been called
    ret,          \* ret[s]: "none" until the stream function returns, then its error
    ddl,          \* writer schema statement: "none", "ok", "failed"
    rounds,       \* rounds[s]: rounds whose fan-out was begun
    dispatched,   \* dispatched[s]: invocations dispatched (grp.Go calls)
    failed,       \* failed[s]: invocations of the current round whose query failed
    atCancel      \* history: pc of each stream at the moment gctx was cancelled

\* main() before run: the flag variables after flag.Parse, the environment,
\* and what parseFlags, validateConfig and the start of run make of them.
VARIABLES
    flags,        \* flags[name]: value of the flag variable (0 when not given)
    env,          \* os.Getenv("DATABASE_URL")
    pcCfg,        \* idle, parse, validate, run, sized, fatal
    parsed,       \* the Config parseFlags returned
    cfgErr,       \* what validateConfig returned: "none" until called
    logged,       \* the writer-max-conns value of run's config log line
    maxConns      \* maxConns[s]: MaxConns (int32) given to the pool of s

cfgVars == <<flags, env, pcCfg, parsed, cfgErr, logged, maxConns>>

\* What the program writes to its log about the connection descriptor and
\* about the queries the pools execute.
VARIABLES
    dsnParts,     \* the components the descriptor was written from
    cfgDSN,       \* cfg.DSN: a string, as the sequence of its tokens
    dsnInfo,      \* redactedDSNInfo(cfg.DSN) in the config log line, <<>> before
    qstate,       \* qstate[q]: where the execution of query q stands
    traceLog      \* the lines simpleTracer has written, in order

logVars == <<dsnParts, cfgDSN, dsnInfo, qstate, traceLog>>

\* Everything that is not state of run's workload.
\* The channel-based variant of the workload: main's coordinator loop and its
\* two stream goroutines.
VARIABLES
    chIter,       \* iterations
    chPc,         \* chPc[s]: where the goroutine of stream s is
    chI,          \* chI[s]: its loop counter i
    errCh,        \* the buffer of errCh (capacity 2)
    sent,         \* history: the errors sent on errCh, in order
    printed,      \* the errors the coordinator printed, in order
    completed,    \* completed
    coPc,         \* the coordinator: "idle", "loop", "complete"
    ctxRunErr     \* ctxRun.Err(): "none" while ctxRun is live

chanVars == <<chIter, chPc, chI, errCh, sent, printed, completed, coPc, ctxRunErr>>

\* safeArgs: the arguments of a traced query and their rendering.
VARIABLES
    args,         \* data.Args
    argsLine      \* safeArgs(data.Args), <<>> before the call

argVars == <<args, argsLine>>

outsideRun == <<cfgVars, logVars, chanVars, argVars>>

runVars == <<cfg, pcMain, runResult, poll, ctxPollDone, pool, closeLog, gctxErr, gErr,
             pc, i, j, inflight, grpErr, grpCancelled, ret, ddl, rounds, dispatched,
             failed, atCancel>>

vars == <<runVars, outsideRun>>

mainVars == <<pcMain, runResult, poll, ctxPollDone, pool, closeLog>>
roundVars == <<i, j, inflight, grpErr, grpCancelled, rounds, dispatched, failed>>

Conc(s) == IF s = "reader" THEN cfg.ReaderConc ELSE cfg.WriterConc

NoCancel == [s \in Streams |-> "none"]

\* gctx is done: the deadline of ctxRun elapsed, or the errgroup cancelled it.
gctxDone == gctxErr # "none"

\* Mutant of qctxDone: the round's group is made from a context of its own.
qctxDone_Detached(s) == grpCancelled[s]

\* qctx of the current round: child of gctx, also cancelled by the round's group.
qctxDone(s) == gctxDone \/ grpCancelled[s]

\* validateConfig: the configurations run() is called with.
validateConfig(c) ==
    /\ c.Iterations > 0
    /\ c.ReaderConc > 0
    /\ c.WriterConc > 0

Configs ==
    {c \in [Iterations : 0..MaxIterations, ReaderConc : 0..MaxConc,
            WriterConc : 0..MaxConc] : validateConfig(c)}

\* ---- Go int (64 bit) values ----------------------------------------------
\* A Go int v is held as [hi, lo] with v = hi * 2^31 + lo and 0 <= lo < 2^31,
\* so that values beyond the int32 range and the narrowing int32(v) can be
\* written with the integers the checker has.

MaxInt32 == 2147483647

W(h, l) == [hi |-> h, lo |-> l]

\* The Go int with the (small) value n.
GoInt(n) == IF n >= 0 THEN W(0, n) ELSE W(-1, (MaxInt32 + n) + 1)

Zero == GoInt(0)

\* v > 0
IsPositive(v) == v.hi > 0 \/ (v.hi = 0 /\ v.lo > 0)

\* v / 3 for v >= 0 (2^31 = 3 * ((MaxInt32 - 1) / 3) + 2).
Div3(v) ==
    LET b == v.hi % 3
    IN  W(v.hi \div 3,
          b * ((MaxInt32 - 1) \div 3) + (v.lo \div 3) + ((2 * b + (v.lo % 3)) \div 3))

\* v + 2
Add2(v) ==
    IF v.lo <= MaxInt32 - 2 THEN W(v.hi, v.lo + 2) ELSE W(v.hi + 1, (v.lo - MaxInt32) + 1)

\* int32(v): the low 32 bits of v, read as a signed number.
Int32(v) == IF v.hi % 2 = 0 THEN v.lo ELSE (v.lo - MaxInt32) - 1

\* The variables outside run's workload, when main's configuration steps are
\* not the subject.
ConfigIdle ==
    /\ flags = <<>>
    /\ env = ""
    /\ pcCfg = "idle"
    /\ parsed = <<>>
    /\ cfgErr = "none"
    /\ logged = Zero
    /\ maxConns = [s \in Streams |-> 0]

\* Nothing logged about the descriptor or about queries.
LogIdle ==
    /\ dsnParts = <<>>
    /\ cfgDSN = <<>>
    /\ dsnInfo = <<>>
    /\ qstate = <<>>
    /\ traceLog = <<>>

\* The channel-based variant is not running.
ChanIdle ==
    /\ chIter = 0
    /\ chPc = <<>>
    /\ chI = <<>>
    /\ errCh = <<>>
    /\ sent = <<>>
    /\ printed = <<>>
    /\ completed = 0
    /\ coPc = "idle"
    /\ ctxRunErr = "none"

\* No query arguments are being rendered.
ArgsIdle ==
    /\ args = <<>>
    /\ argsLine = <<>>

\* run's workload state at the entry of run.
RunEntry ==
    /\ pcMain = "health"
    /\ runResult = "none"
    /\ poll = "none"
    /\ ctxPollDone = FALSE
    /\ pool = [s \in Streams |-> "none"]
    /\ closeLog = <<>>
    /\ gctxErr = "none"
    /\ gErr = "nil"
    /\ pc = [s \in Streams |-> "idle"]
    /\ i = [s \in Streams |-> 0]
    /\ j = [s \in Streams |-> 0]
    /\ inflight = [s \in Streams |-> {}]
    /\ grpErr = [s \in Streams |-> "nil"]
    /\ grpCancelled = [s \in Streams |-> FALSE]
    /\ ret = [s \in Streams |-> "none"]
    /\ ddl = "none"
    /\ rounds = [s \in Streams |-> 0]
    /\ dispatched = [s \in Streams |-> 0]
    /\ failed = [s \in Streams |-> 0]
    /\ atCancel = NoCancel

Init ==
    /\ cfg \in Configs
    /\ RunEntry
    /\ ConfigIdle
    /\ LogIdle
    /\ ChanIdle
    /\ ArgsIdle

\* ---- run(): resources, defers, return -----------------------------------

\* Mutant of DeferredCloses: the pools are closed in the order of acquisition.
DeferredCloses_Forward(p) ==
    (IF p["reader"] = "open" THEN <<"reader">> ELSE <<>>)
        \o (IF p["writer"] = "open" THEN <<"writer">> ELSE <<>>)

\* The deferred Close calls of run(), newest first: writerPool.Close, then
\* readerPool.Close, each registered only once its pool exists.
DeferredCloses(p) ==
    (IF p["writer"] = "open" THEN <<"writer">> ELSE <<>>)
        \o (IF p["reader"] = "open" THEN <<"reader">> ELSE <<>>)

\* run returns result with the pools in state p: the deferred calls run
\* (cancelRun, the Close calls, cancelPoll once the poll goroutine was started).
RunReturnFrom(result, p) ==
    /\ pcMain' = "returned"
    /\ runResult' = result
    /\ closeLog' = closeLog \o DeferredCloses(p)
    /\ pool' = [s \in Streams |->
                  IF \E k \in 1..Len(DeferredCloses(p)) : DeferredCloses(p)[k] = s
                  THEN "closed" ELSE p[s]]
    /\ ctxPollDone' = (poll = "running")

RunReturn(result) == RunReturnFrom(result, pool)

\* Mutant of CreateOutcome: a creation error is not looked at.
CreateOutcome_Ignored(ok, what) == "nil"

\* if err != nil { return fmt.Errorf("create ...: %w", err) } after a creation.
CreateOutcome(ok, what) == IF ok THEN "nil" ELSE what

NewNodeHealthChecker ==
    /\ pcMain = "health"
    /\ \E ok \in BOOLEAN :
        IF CreateOutcome(ok, "create health tracker") = "nil"
        THEN /\ pcMain' = "rpool"
             /\ poll' = IF ok THEN "running" ELSE "failed"
             /\ UNCHANGED <<runResult, ctxPollDone, pool, closeLog>>
        ELSE /\ RunReturn(CreateOutcome(ok, "create health tracker"))
             /\ poll' = "failed"
    /\ UNCHANGED <<outsideRun, cfg, gctxErr, gErr, pc, ret, ddl, atCancel, roundVars>>

NewReaderPool ==
    /\ pcMain = "rpool"
    /\ \E ok \in BOOLEAN :
        LET p == [pool EXCEPT !["reader"] = IF ok THEN "open" ELSE "failed"] IN
        IF CreateOutcome(ok, "create reader pool") = "nil"
        THEN /\ pcMain' = "wpool"
             /\ pool' = p
             /\ UNCHANGED <<runResult, ctxPollDone, closeLog>>
        ELSE RunReturnFrom(CreateOutcome(ok, "create reader pool"), p)
    /\ UNCHANGED <<outsideRun, cfg, poll, gctxErr, gErr, pc, ret, ddl, atCancel, roundVars>>

NewWriterPool ==
    /\ pcMain = "wpool"
    /\ \E ok \in BOOLEAN :
        LET p == [pool EXCEPT !["writer"] = IF ok THEN "open" ELSE "failed"] IN
        IF CreateOutcome(ok, "create writer pool") = "nil"
        THEN /\ pcMain' = "launch"
             /\ pool' = p
             /\ UNCHANGED <<runResult, ctxPollDone, closeLog>>
        ELSE RunReturnFrom(CreateOutcome(ok, "create writer pool"), p)
    /\ UNCHANGED <<outsideRun, cfg, poll, gctxErr, gErr, pc, ret, ddl, atCancel, roundVars>>

\* Mutant of WriterStart: the writer enters its round loop without the DDL.
WriterStart_SkipDDL == "check"

\* The writer function begins with the schema-ensuring statement.
WriterStart == "ddl"

\* context.WithTimeout, errgroup.WithContext and the two g.Go calls.
Launch ==
    /\ pcMain = "launch"
    /\ pcMain' = "gwait"
    /\ pc' = [s \in Streams |-> IF s = "reader" THEN "check" ELSE WriterStart]
    /\ UNCHANGED <<outsideRun, cfg, runResult, poll, ctxPollDone, pool, closeLog, gctxErr, gErr,
                   ret, ddl, atCancel, roundVars>>

\* The health poll goroutine returns once its context is cancelled.
PollStop ==
    /\ poll = "running"
    /\ ctxPollDone
    /\ poll' = "stopped"
    /\ UNCHANGED <<outsideRun, cfg, pcMain, runResult, ctxPollDone, pool, closeLog, gctxErr, gErr,
                   pc, ret, ddl, atCancel, roundVars>>

\* ---- the shared scope ---------------------------------------------------

\* Cancelling gctx: Err() keeps the first cause; the history records where each
\* stream was when the scope was cancelled.
CancelGctx(cause) ==
    IF gctxDone
    THEN UNCHANGED <<gctxErr, atCancel>>
    ELSE /\ gctxErr' = cause
         /\ atCancel' = [s \in Streams |-> pc[s]]

\* The deadline of ctxRun (cfg.Timeout) elapses while the group is running.
Deadline ==
    /\ pcMain = "gwait"
    /\ ~gctxDone
    /\ CancelGctx("deadline")
    /\ UNCHANGED <<outsideRun, cfg, mainVars, gErr, pc, ret, ddl, roundVars>>

\* Mutant of FirstError: a later error replaces the recorded one.
FirstError_LastWins(old, new) == new

\* errgroup: errOnce keeps the first non-nil error.
FirstError(old, new) == IF old = "nil" THEN new ELSE old

\* Mutant of GroupCancels: a group made without WithContext cancels nothing.
GroupCancels_Never(err) == FALSE

\* g is made by errgroup.WithContext: a non-nil error of a task cancels gctx.
GroupCancels(err) == err # "nil"

\* A stream function returns err to g.Go's wrapper: a non-nil error is recorded
\* once and cancels gctx.
StreamReturn(s, err) ==
    /\ pc' = [pc EXCEPT ![s] = "done"]
    /\ ret' = [ret EXCEPT ![s] = err]
    /\ gErr' = IF err # "nil" THEN FirstError(gErr, err) ELSE gErr
    /\ IF GroupCancels(err)
       THEN CancelGctx("canceled")
       ELSE UNCHANGED <<gctxErr, atCancel>>

\* g.Wait(): blocks until both stream functions returned, cancels gctx, and
\* run returns g.err (nil: "workload complete").
StreamsDone == \A s \in Streams : pc[s] = "done"

GWait ==
    /\ pcMain = "gwait"
    /\ StreamsDone
    /\ CancelGctx("canceled")
    /\ RunReturn(gErr)
    /\ UNCHANGED <<outsideRun, cfg, poll, gErr, pc, ret, ddl, roundVars>>

\* ---- the streams --------------------------------------------------------

\* Mutant of DDLResult: the failure of the schema statement is swallowed.
DDLResult_Swallowed(ok) == "nil"

\* What the writer does with the schema statement's outcome: a failure is
\* returned, wrapped as "writer DDL: ...".
DDLResult(ok) == IF ok THEN "nil" ELSE "DDL"

\* Writer: the schema-ensuring statement, before the round loop.
WriterDDL ==
    /\ pc["writer"] = "ddl"
    /\ \E ok \in BOOLEAN :
        /\ ddl' = IF ok THEN "ok" ELSE "failed"
        /\ IF DDLResult(ok) = "nil"
           THEN /\ pc' = [pc EXCEPT !["writer"] = "check"]
                /\ UNCHANGED <<ret, gErr, gctxErr, atCancel>>
           ELSE StreamReturn("writer", DDLResult(ok))
    /\ UNCHANGED <<outsideRun, cfg, mainVars, roundVars>>

\* Mutant of TopCheckStops: the round loop does not look at gctx.
TopCheckStops_Never(s) == FALSE

\* Top-of-round select: the non-blocking check of gctx.Done().
TopCheckStops(s) == gctxDone

\* Mutant of LoopDone: the loop stops one round early.
LoopDone_OffByOne(s) == i[s] + 1 >= cfg.Iterations

\* The loop condition i < cfg.Iterations is false.
LoopDone(s) == i[s] >= cfg.Iterations

\* Loop condition and top-of-round check: after Iterations rounds the stream
\* returns nil; on a cancelled gctx it returns gctx.Err(); otherwise it makes
\* the round's errgroup and begins the fan-out.
Check(s) ==
    /\ pc[s] = "check"
    /\ IF LoopDone(s)
       THEN /\ StreamReturn(s, "nil")
            /\ UNCHANGED roundVars
       ELSE IF TopCheckStops(s)
       THEN /\ StreamReturn(s, gctxErr)
            /\ UNCHANGED roundVars
       ELSE /\ pc' = [pc EXCEPT ![s] = "fanout"]
            /\ j' = [j EXCEPT ![s] = 0]
            /\ grpErr' = [grpErr EXCEPT ![s] = "nil"]
            /\ grpCancelled' = [grpCancelled EXCEPT ![s] = FALSE]
            /\ rounds' = [rounds EXCEPT ![s] = @ + 1]
            /\ failed' = [failed EXCEPT ![s] = 0]
            /\ UNCHANGED <<i, inflight, dispatched, ret, gErr, gctxErr, atCancel>>
    /\ UNCHANGED <<outsideRun, cfg, mainVars, ddl>>

\* One grp.Go of the fan-out loop; after the C-th the stream is at grp.Wait().
Dispatch(s) ==
    /\ pc[s] = "fanout"
    /\ j[s] < Conc(s)
    /\ inflight' = [inflight EXCEPT ![s] = @ \cup {<<i[s], j[s]>>}]
    /\ dispatched' = [dispatched EXCEPT ![s] = @ + 1]
    /\ j' = [j EXCEPT ![s] = @ + 1]
    /\ pc' = [pc EXCEPT ![s] = IF j[s] + 1 < Conc(s) THEN "fanout" ELSE "wait"]
    /\ UNCHANGED <<outsideRun, cfg, mainVars, gctxErr, gErr, ret, ddl, atCancel, i, grpErr,
                   grpCancelled, rounds, failed>>

\* Mutant of MemberReturn: the member returns its query's error.
MemberReturn_Escalates(s, queryErr) == queryErr

\* What a fan-out member returns to its errgroup after its query ended with
\* queryErr ("nil" or "query error"): the error is logged and nil returned.
MemberReturn(s, queryErr) == "nil"

\* A dispatched invocation ends, successfully or not (whatever the state of its
\* context), and its goroutine returns; a non-nil return would be recorded by
\* the round's group and cancel qctx.
MemberFinish(s) ==
    /\ \E m \in inflight[s], queryErr \in {"nil", "query error"} :
        /\ inflight' = [inflight EXCEPT ![s] = @ \ {m}]
        /\ failed' = [failed EXCEPT ![s] = IF queryErr = "nil" THEN @ ELSE @ + 1]
        /\ IF MemberReturn(s, queryErr) # "nil"
           THEN /\ grpErr' = [grpErr EXCEPT ![s] = FirstError(@, MemberReturn(s, queryErr))]
                /\ grpCancelled' = [grpCancelled EXCEPT ![s] = TRUE]
           ELSE UNCHANGED <<grpErr, grpCancelled>>
    /\ UNCHANGED <<outsideRun, cfg, mainVars, gctxErr, gErr, pc, ret, ddl, atCancel, i, j, rounds,
                   dispatched>>

\* Mutant of BarrierReady: the stream does not wait for the round's group.
BarrierReady_NoWait(s) == TRUE

\* Mutant of BarrierReady: the barrier releases with one invocation outstanding.
BarrierReady_AllButOne(s) == Cardinality(inflight[s]) <= 1

\* grp.Wait() returns when every goroutine of the round's group has returned.
BarrierReady(s) == inflight[s] = {}

\* Mutant of RoundOutcome: a round with a failed query ends the stream.
RoundOutcome_Escalates(s) == IF failed[s] > 0 THEN "query error" ELSE "nil"

\* The error a round ends the stream with: none. Query errors are logged by
\* the members and a batch error is logged "(continuing)".
RoundOutcome(s) == "nil"

\* The barrier: grp.Wait() returns (and cancels qctx); a batch error is only
\* logged. The stream then evaluates time.After and enters the select.
Barrier(s) ==
    /\ pc[s] = "wait"
    /\ BarrierReady(s)
    /\ grpCancelled' = [grpCancelled EXCEPT ![s] = TRUE]
    /\ IF RoundOutcome(s) = "nil"
       THEN /\ pc' = [pc EXCEPT ![s] = "sleep"]
            /\ UNCHANGED <<gctxErr, gErr, ret, atCancel>>
       ELSE StreamReturn(s, RoundOutcome(s))
    /\ UNCHANGED <<outsideRun, cfg, mainVars, ddl, i, j, inflight, grpErr, rounds, dispatched,
                   failed>>

\* Mutant of DoneCase: the cancelled sleep ends the stream with nil.
DoneCase_Nil(s) == "nil"

\* case <-gctx.Done(): return gctx.Err()
DoneCase(s) == gctxErr

\* Inter-round select, case <-gctx.Done(): ready once gctx is cancelled.
SleepCancelled(s) ==
    /\ pc[s] = "sleep"
    /\ gctxDone
    /\ StreamReturn(s, DoneCase(s))
    /\ UNCHANGED <<outsideRun, cfg, mainVars, ddl, roundVars>>

\* Inter-round select, case <-time.After(sleep): ready once the timer has
\* expired, which it may have by the time the select polls its cases; when
\* both cases are ready Go picks either. The loop then does i++.
SleepElapsed(s) ==
    /\ pc[s] = "sleep"
    /\ i' = [i EXCEPT ![s] = @ + 1]
    /\ pc' = [pc EXCEPT ![s] = "check"]
    /\ UNCHANGED <<outsideRun, cfg, mainVars, gctxErr, gErr, ret, ddl, atCancel, j, inflight,
                   grpErr, grpCancelled, rounds, dispatched, failed>>

Next ==
    \/ NewNodeHealthChecker
    \/ NewReaderPool
    \/ NewWriterPool
    \/ Launch
    \/ PollStop
    \/ Deadline
    \/ GWait
    \/ WriterDDL
    \/ \E s \in Streams : Check(s)
    \/ \E s \in Streams : Dispatch(s)
    \/ \E s \in Streams : MemberFinish(s)
    \/ \E s \in Streams : Barrier(s)
    \/ \E s \in Streams : SleepCancelled(s)
    \/ \E s \in Streams : SleepElapsed(s)

Spec == Init /\ [][Next]_vars

\* Scheduling from g.Go on: the timer of ctxRun fires, the goroutines of run,
\* of the streams and of the rounds are scheduled, the sleep timers fire, and a
\* query (the schema statement under gctx, an invocation under its qctx) ends,
\* by finishing or by failing, once its context is cancelled. Before that a
\* query may take for ever.
Fairness ==
    /\ WF_vars(Deadline)
    /\ WF_vars(GWait)
    /\ WF_vars(gctxDone /\ WriterDDL)
    /\ \A s \in Streams :
          /\ WF_vars(Check(s))
          /\ WF_vars(Dispatch(s))
          /\ WF_vars(qctxDone(s) /\ MemberFinish(s))
          /\ WF_vars(Barrier(s))
          /\ WF_vars(SleepElapsed(s))

\* The configurations of the termination check: every Iterations and every
\* concurrency of either stream, the two streams sharing MaxConc + 1 invocations
\* per round.
LiveConfigs == {c \in Configs : c.ReaderConc + c.WriterConc <= MaxConc + 1}

InitLive ==
    /\ cfg \in LiveConfigs
    /\ RunEntry
    /\ ConfigIdle
    /\ LogIdle
    /\ ChanIdle
    /\ ArgsIdle

SpecLive == InitLive /\ [][Next]_vars /\ Fairness

\* ---- main(): flags, validation, pool sizing -----------------------------

\* Bound of the configuration model: how many flags a command line sets.
MaxSetFlags == 2

\* Defaults of parseFlags (durations in milliseconds).
defaultIterations == 1000
defaultTimeout == 300000
defaultReaderMaxConns == 12
defaultWriterSleep == 50
defaultReaderSleep == 50
defaultConcurrency == 1

FlagNames ==
    {"i", "iterations", "t", "timeout", "r", "reader-max-conns", "w",
     "writer-max-conns", "rs", "reader-sleep", "ws", "writer-sleep",
     "reader-conc", "writer-conc"}

ConnFlags == {"r", "reader-max-conns", "w", "writer-max-conns"}

\* Values a flag is given on the command line: small ones for every flag, and
\* for the connection counts also 2^31-1, 2^31, 2^32+1 and 3*2^31.
FlagSamples == {GoInt(v) : v \in {-1, 1, 2, 4, 12}}

BigSamples == {W(0, MaxInt32), W(1, 0), W(2, 1), W(3, 0)}

FlagValues(n) == FlagSamples \cup (IF n \in ConnFlags THEN BigSamples ELSE {})

\* The flag variables after flag.Parse: the flags given hold their value, the
\* others the flag's default 0.
FlagSettings ==
    LET given == {S \in SUBSET FlagNames : Cardinality(S) <= MaxSetFlags}
        pick == UNION {[S -> FlagSamples \cup BigSamples] : S \in given}
    IN  {[n \in FlagNames |-> IF n \in DOMAIN g THEN g[n] ELSE Zero] :
            g \in {h \in pick : \A n \in DOMAIN h : h[n] \in FlagValues(n)}}

\* if long > 0 { cfg.X = long } else if short > 0 { cfg.X = short }
LongShort(long, short, default) ==
    IF IsPositive(long) THEN long
    ELSE IF IsPositive(short) THEN short
    ELSE default

parseFlags(f, dsn) ==
    [Iterations  |-> LongShort(f["iterations"], f["i"], GoInt(defaultIterations)),
     Timeout     |-> LongShort(f["timeout"], f["t"], GoInt(defaultTimeout)),
     ReaderMax   |-> LongShort(f["reader-max-conns"], f["r"], GoInt(defaultReaderMaxConns)),
     WriterMax   |-> LongShort(f["writer-max-conns"], f["w"], Zero),
     ReaderSleep |-> LongShort(f["reader-sleep"], f["rs"], GoInt(defaultReaderSleep)),
     WriterSleep |-> LongShort(f["writer-sleep"], f["ws"], GoInt(defaultWriterSleep)),
     ReaderConc  |-> IF IsPositive(f["reader-conc"]) THEN f["reader-conc"]
                     ELSE GoInt(defaultConcurrency),
     WriterConc  |-> IF IsPositive(f["writer-conc"]) THEN f["writer-conc"]
                     ELSE GoInt(defaultConcurrency),
     DSN         |-> dsn]

\* validateConfig over the whole Config: the error it returns, or "nil".
validateConfigError(c) ==
    IF c.DSN = "" THEN "DATABASE_URL is required"
    ELSE IF ~IsPositive(c.Iterations) THEN "iterations must be > 0"
    ELSE IF ~IsPositive(c.Timeout) THEN "timeout must be > 0"
    ELSE IF ~IsPositive(c.ReaderMax) THEN "reader-max-conns must be > 0"
    ELSE IF ~IsPositive(c.ReaderConc) \/ ~IsPositive(c.WriterConc)
    THEN "concurrency must be > 0"
    ELSE "nil"

deriveWriterMax(readerMax, writerMax) ==
    IF IsPositive(writerMax)
    THEN Int32(writerMax)
    ELSE LET wm == Div3(readerMax)
         IN  IF ~IsPositive(wm) THEN Int32(GoInt(1)) ELSE Int32(wm)

\* The writer-max-conns argument of run's config log line.
LoggedWriterMax(c) ==
    IF IsPositive(c.WriterMax) THEN c.WriterMax ELSE Div3(Add2(c.ReaderMax))

ZeroConfig ==
    [Iterations |-> Zero, Timeout |-> Zero, ReaderMax |-> Zero, WriterMax |-> Zero,
     ReaderSleep |-> Zero, WriterSleep |-> Zero, ReaderConc |-> Zero,
     WriterConc |-> Zero, DSN |-> ""]

ConfigInit ==
    /\ flags \in FlagSettings
    /\ env \in {"", "dsn"}
    /\ pcCfg = "parse"
    /\ parsed = ZeroConfig
    /\ cfgErr = "none"
    /\ logged = Zero
    /\ maxConns = [s \in Streams |-> 0]

\* main: cfg := parseFlags()
MainParseFlags ==
    /\ pcCfg = "parse"
    /\ parsed' = parseFlags(flags, env)
    /\ pcCfg' = "validate"
    /\ UNCHANGED <<flags, env, cfgErr, logged, maxConns, runVars, logVars, chanVars, argVars>>

\* main: validateConfig(&cfg); an error ends the process (log.Fatal).
MainValidateConfig ==
    /\ pcCfg = "validate"
    /\ cfgErr' = validateConfigError(parsed)
    /\ pcCfg' = IF validateConfigError(parsed) = "nil" THEN "run" ELSE "fatal"
    /\ UNCHANGED <<flags, env, parsed, logged, maxConns, runVars, logVars, chanVars, argVars>>

\* run: the config log line, readerCfg.MaxConns and writerCfg.MaxConns.
RunPoolSizing ==
    /\ pcCfg = "run"
    /\ logged' = LoggedWriterMax(parsed)
    /\ maxConns' = [s \in Streams |->
                      IF s = "reader" THEN Int32(parsed.ReaderMax)
                      ELSE deriveWriterMax(parsed.ReaderMax, parsed.WriterMax)]
    /\ pcCfg' = "sized"
    /\ UNCHANGED <<flags, env, parsed, cfgErr, runVars, logVars, chanVars, argVars>>

RunIdle ==
    /\ cfg = [Iterations |-> 1, ReaderConc |-> 1, WriterConc |-> 1]
    /\ RunEntry

InitConfig == ConfigInit /\ RunIdle /\ LogIdle /\ ChanIdle /\ ArgsIdle

NextConfig ==
    \/ MainParseFlags
    \/ MainValidateConfig
    \/ RunPoolSizing

SpecConfig == InitConfig /\ [][NextConfig]_vars

\* ---- the connection descriptor in the config log line ---------------------
\* A string is the sequence of its tokens: a token is a word of letters, a
\* digit, a punctuation character, or the escape "%40" (an encoded "@").

MaxPwLen == 2

Words == {"postgres", "host", "user", "password", "dbname", "db",
          "a", "b", "h", "d", "k"}
Digits == {"1"}

\* strings.Index / strings.LastIndex, 1-based, 0 when absent.
Index(s, c) ==
    IF \E k \in 1..Len(s) : s[k] = c
    THEN CHOOSE k \in 1..Len(s) : s[k] = c /\ \A m \in 1..(k - 1) : s[m] # c
    ELSE 0

LastIndex(s, c) ==
    IF \E k \in 1..Len(s) : s[k] = c
    THEN CHOOSE k \in 1..Len(s) : s[k] = c /\ \A m \in (k + 1)..Len(s) : s[m] # c
    ELSE 0

Before(s, k) == SubSeq(s, 1, k - 1)
After(s, k) == SubSeq(s, k + 1, Len(s))
HasPrefix(s, p) == Len(s) >= Len(p) /\ SubSeq(s, 1, Len(p)) = p

\* strings.Cut(s, c): what is before the first c (all of s when there is none).
CutBefore(s, c) == IF Index(s, c) = 0 THEN s ELSE Before(s, Index(s, c))

\* url.PathUnescape / the unescaping of userinfo and host: "%40" is "@".
unescape(s) == [k \in 1..Len(s) |-> IF s[k] = "%40" THEN "@" ELSE s[k]]

\* net/url getScheme: letters go on, a digit goes on except in first place, a
\* ":" ends the scheme (an error in first place), anything else: no scheme.
getScheme(raw) ==
    LET goesOn(k) == raw[k] \in Words \/ (raw[k] \in Digits /\ k > 1)
        stops == {k \in 1..Len(raw) : ~goesOn(k)}
        stop == IF stops = {} THEN 0
                ELSE CHOOSE k \in stops : \A m \in stops : k <= m
    IN  IF stop = 0 THEN [err |-> FALSE, scheme |-> <<>>, rest |-> raw]
        ELSE IF raw[stop] = ":"
        THEN IF stop = 1 THEN [err |-> TRUE, scheme |-> <<>>, rest |-> <<>>]
             ELSE [err |-> FALSE, scheme |-> Before(raw, stop), rest |-> After(raw, stop)]
        ELSE [err |-> FALSE, scheme |-> <<>>, rest |-> raw]

\* net/url validOptionalPort: empty, or ":" followed by digits only.
validOptionalPort(port) ==
    \/ port = <<>>
    \/ port[1] = ":" /\ \A k \in 2..Len(port) : port[k] \in Digits

\* net/url validUserinfo.
validUserinfo(s) ==
    \A k \in 1..Len(s) : s[k] \in Words \cup Digits \cup {":", "@", "%40", "="}

ParseError == [err |-> TRUE, Host |-> <<>>, Path |-> <<>>, HasUser |-> FALSE, Username |-> <<>>]

\* net/url parseAuthority: the user name is the userinfo up to its first ":".
Username(userinfo) == unescape(CutBefore(userinfo, ":"))

\* net/url parseAuthority and parseHost: the userinfo is what precedes the
\* LAST "@"; the host's text after its last ":" must be a port.
parseAuthority(authority, path) ==
    LET at == LastIndex(authority, "@")
        host == After(authority, at)
        colon == LastIndex(host, ":")
        userinfo == Before(authority, at)
    IN  IF colon # 0 /\ ~validOptionalPort(SubSeq(host, colon, Len(host)))
        THEN ParseError
        ELSE IF at = 0
        THEN [err |-> FALSE, Host |-> unescape(host), Path |-> unescape(path),
              HasUser |-> FALSE, Username |-> <<>>]
        ELSE IF ~validUserinfo(userinfo) THEN ParseError
        ELSE [err |-> FALSE, Host |-> unescape(host), Path |-> unescape(path),
              HasUser |-> TRUE, Username |-> Username(userinfo)]

\* url.Parse (no "#" in the alphabet): the scheme is split off, then the
\* query; a rest not starting with "/" is opaque under a scheme and a path
\* otherwise (an error when its first segment holds a ":"); a rest starting
\* with "//" has an authority up to the next "/".
urlParse(raw) ==
    LET s == getScheme(raw)
        rest == CutBefore(s.rest, "?")
        afterSlashes == SubSeq(rest, 3, Len(rest))
        authority == CutBefore(afterSlashes, "/")
        path == SubSeq(afterSlashes, Len(authority) + 1, Len(afterSlashes))
        asPath == [err |-> FALSE, Host |-> <<>>, Path |-> unescape(rest),
                   HasUser |-> FALSE, Username |-> <<>>]
    IN  IF s.err THEN ParseError
        ELSE IF ~HasPrefix(rest, <<"/">>) /\ s.scheme # <<>>
        THEN [err |-> FALSE, Host |-> <<>>, Path |-> <<>>,
              HasUser |-> FALSE, Username |-> <<>>]
        ELSE IF ~HasPrefix(rest, <<"/">>) /\ Index(CutBefore(rest, "/"), ":") # 0
        THEN ParseError
        ELSE IF (s.scheme # <<>> \/ ~HasPrefix(rest, <<"/", "/", "/">>))
                /\ HasPrefix(rest, <<"/", "/">>)
        THEN parseAuthority(authority, path)
        ELSE asPath

\* fmt.Sprintf("host=%s db=%s user=%s", host, db, user)
Sprintf(host, db, user) ==
    <<"host", "=">> \o host \o <<" ", "db", "=">> \o db \o <<" ", "user", "=">> \o user

redactedDSNInfo(d) ==
    LET u == urlParse(d)
    IN  IF u.err THEN <<"<invalid dsn>">>
        ELSE Sprintf(u.Host, u.Path, IF u.HasUser THEN u.Username ELSE <<>>)

\* The descriptors of the README, written from their components.  The URL
\* form: postgres://[user[:password]@]host[:port][/db][?k]; the keyword/value
\* form (both are what pgxpool.ParseConfig takes): host=.. user=.. [password=..]
\* dbname=..
Seqs(S, n) == UNION {[1..m -> S] : m \in 1..n}

Passwords == Seqs({"b", "1", ":", "@", "%40"}, MaxPwLen)

URLParts ==
    [form : {"url"}, hasUser : {TRUE}, user : {<<>>, <<"a">>, <<"a", "%40">>},
     hasPw : BOOLEAN, pw : Passwords, host : {<<"h">>},
     port : {<<>>, <<"1">>, <<"b">>}, db : {<<>>, <<"d">>}, query : BOOLEAN]
    \cup
    [form : {"url"}, hasUser : {FALSE}, user : {<<>>},
     hasPw : {FALSE}, pw : {<<"b">>}, host : {<<"h">>},
     port : {<<>>, <<"1">>, <<"b">>}, db : {<<>>, <<"d">>}, query : BOOLEAN]

KVParts ==
    [form : {"kv"}, hasUser : {TRUE}, user : {<<"a">>},
     hasPw : {TRUE}, pw : Passwords, host : {<<"h">>},
     port : {<<>>}, db : {<<"d">>}, query : {FALSE}]

DSNParts == {p \in URLParts \cup KVParts : ~p.hasPw => p.pw = <<"b">>}

Compose(p) ==
    IF p.form = "url"
    THEN <<"postgres", ":", "/", "/">>
         \o (IF p.hasUser
             THEN p.user \o (IF p.hasPw THEN <<":">> \o p.pw ELSE <<>>) \o <<"@">>
             ELSE <<>>)
         \o p.host
         \o (IF p.port # <<>> THEN <<":">> \o p.port ELSE <<>>)
         \o (IF p.db # <<>> THEN <<"/">> \o p.db ELSE <<>>)
         \o (IF p.query THEN <<"?", "k">> ELSE <<>>)
    ELSE <<"host", "=">> \o p.host \o <<" ", "user", "=">> \o p.user
         \o (IF p.hasPw THEN <<" ", "password", "=">> \o p.pw ELSE <<>>)
         \o <<" ", "dbname", "=">> \o p.db

DSNInit ==
    /\ dsnParts \in DSNParts
    /\ cfgDSN = Compose(dsnParts)
    /\ dsnInfo = <<>>
    /\ qstate = <<>>
    /\ traceLog = <<>>

\* run's config log line: dsn(%s) of redactedDSNInfo(cfg.DSN).
RunLogsDSN ==
    /\ dsnInfo = <<>>
    /\ dsnInfo' = redactedDSNInfo(cfgDSN)
    /\ UNCHANGED <<dsnParts, cfgDSN, qstate, traceLog, cfgVars, runVars, chanVars, argVars>>

InitDSN == DSNInit /\ RunIdle /\ ConfigIdle /\ ChanIdle /\ ArgsIdle

NextDSN == RunLogsDSN

SpecDSN == InitDSN /\ [][NextDSN]_vars

\* ---- simpleTracer: the log lines of query executions ----------------------
\* pgx calls TraceQueryStart when a connection starts executing a query and
\* TraceQueryEnd when that execution has its result; the connections of the
\* pools execute concurrently and log.Printf writes one whole line at a time.

MaxQueries == 3

Queries == 1..MaxQueries

\* TraceQueryStart writes one line.
StartLines(q) == <<[kind |-> "start", q |-> q, result |-> "none"]>>

\* Mutant of EndLines: the error branch does not return.
EndLines_NoReturn(q, err) ==
    IF err
    THEN <<[kind |-> "end", q |-> q, result |-> "err"],
           [kind |-> "end", q |-> q, result |-> "ok"]>>
    ELSE <<[kind |-> "end", q |-> q, result |-> "ok"]>>

\* TraceQueryEnd writes the err line and returns, or else the tag/rows line.
EndLines(q, err) ==
    IF err
    THEN <<[kind |-> "end", q |-> q, result |-> "err"]>>
    ELSE <<[kind |-> "end", q |-> q, result |-> "ok"]>>

TraceInit ==
    /\ qstate = [q \in Queries |-> "idle"]
    /\ traceLog = <<>>
    /\ dsnParts = <<>>
    /\ cfgDSN = <<>>
    /\ dsnInfo = <<>>

TraceQueryStart ==
    \E q \in Queries :
        /\ qstate[q] = "idle"
        /\ traceLog' = traceLog \o StartLines(q)
        /\ qstate' = [qstate EXCEPT ![q] = "running"]
        /\ UNCHANGED <<dsnParts, cfgDSN, dsnInfo, cfgVars, runVars, chanVars, argVars>>

TraceQueryEnd ==
    \E q \in Queries, err \in BOOLEAN :
        /\ qstate[q] = "running"
        /\ traceLog' = traceLog \o EndLines(q, err)
        /\ qstate' = [qstate EXCEPT ![q] = "done"]
        /\ UNCHANGED <<dsnParts, cfgDSN, dsnInfo, cfgVars, runVars, chanVars, argVars>>

InitTrace == TraceInit /\ RunIdle /\ ConfigIdle /\ ChanIdle /\ ArgsIdle

NextTrace ==
    \/ TraceQueryStart
    \/ TraceQueryEnd

SpecTrace == InitTrace /\ [][NextTrace]_vars

\* ---- the channel-based variant: done, errCh and the coordinator loop -------
\* Each stream goroutine runs its queries one after the other under ctxRun; on
\* a query error it sends the error on errCh and returns; its deferred send
\* on the unbuffered done channel completes when the coordinator receives.

errChCap == 2

ChanInit ==
    /\ chIter \in 1..MaxIterations
    /\ chPc = [s \in Streams |-> IF s = "reader" THEN "check" ELSE "ddl"]
    /\ chI = [s \in Streams |-> 0]
    /\ errCh = <<>>
    /\ sent = <<>>
    /\ printed = <<>>
    /\ completed = 0
    /\ coPc = "loop"
    /\ ctxRunErr = "none"

\* cancelRun(), and the timer of context.WithTimeout: Err() keeps the first cause.
CancelRun(cause) == IF ctxRunErr = "none" THEN cause ELSE ctxRunErr

\* The deadline of ctxRun elapses.
ChDeadline ==
    /\ coPc = "loop"
    /\ ctxRunErr = "none"
    /\ ctxRunErr' = CancelRun("deadline")
    /\ UNCHANGED <<chIter, chPc, chI, errCh, sent, printed, completed, coPc,
                   cfgVars, logVars, argVars, runVars>>

\* errCh <- fmt.Errorf(what, err); return: the send needs room in the buffer;
\* the goroutine is then at its deferred send on done.
SendErr(s, what) ==
    /\ Len(errCh) < errChCap
    /\ errCh' = Append(errCh, what)
    /\ sent' = Append(sent, what)
    /\ chPc' = [chPc EXCEPT ![s] = "defer"]

\* Writer: the schema statement before the loop.
ChWriterDDL ==
    /\ chPc["writer"] = "ddl"
    /\ \E ok \in BOOLEAN :
        IF ok
        THEN /\ chPc' = [chPc EXCEPT !["writer"] = "check"]
             /\ UNCHANGED <<errCh, sent>>
        ELSE SendErr("writer", "writer DDL")
    /\ UNCHANGED <<chIter, chI, printed, completed, coPc, ctxRunErr,
                   cfgVars, logVars, argVars, runVars>>

\* Loop condition and the non-blocking check of ctxRun.Done(): the goroutine
\* returns (to its deferred send) after iterations rounds or on a done ctxRun.
ChCheck(s) ==
    /\ chPc[s] = "check"
    /\ chPc' = [chPc EXCEPT ![s] =
                  IF chI[s] >= chIter \/ ctxRunErr # "none" THEN "defer" ELSE "query"]
    /\ UNCHANGED <<chIter, chI, errCh, sent, printed, completed, coPc, ctxRunErr,
                   cfgVars, logVars, argVars, runVars>>

\* The round's query ends: without error the goroutine goes on to its sleep,
\* with an error it sends the error and returns.
ChQuery(s) ==
    /\ chPc[s] = "query"
    /\ \E ok \in BOOLEAN :
        IF ok
        THEN /\ chPc' = [chPc EXCEPT ![s] = "sleep"]
             /\ UNCHANGED <<errCh, sent>>
        ELSE SendErr(s, IF s = "reader" THEN "reader" ELSE "writer upsert")
    /\ UNCHANGED <<chIter, chI, printed, completed, coPc, ctxRunErr,
                   cfgVars, logVars, argVars, runVars>>

\* time.Sleep returns; i++.
ChSleep(s) ==
    /\ chPc[s] = "sleep"
    /\ chI' = [chI EXCEPT ![s] = @ + 1]
    /\ chPc' = [chPc EXCEPT ![s] = "check"]
    /\ UNCHANGED <<chIter, errCh, sent, printed, completed, coPc, ctxRunErr,
                   cfgVars, logVars, argVars, runVars>>

\* The coordinator's select, case <-done: ready when a goroutine is at its
\* deferred send; the goroutine exits.
CoRecvDone ==
    /\ coPc = "loop"
    /\ completed < 2
    /\ \E s \in Streams :
        /\ chPc[s] = "defer"
        /\ chPc' = [chPc EXCEPT ![s] = "exited"]
    /\ completed' = completed + 1
    /\ UNCHANGED <<chIter, chI, errCh, sent, printed, coPc, ctxRunErr,
                   cfgVars, logVars, argVars, runVars>>

\* The coordinator's select, case err := <-errCh: ready when the buffer holds
\* an error; the error is printed and cancelRun() called. With both cases
\* ready the select takes either.
CoRecvErr ==
    /\ coPc = "loop"
    /\ completed < 2
    /\ errCh # <<>>
    /\ printed' = Append(printed, Head(errCh))
    /\ errCh' = Tail(errCh)
    /\ ctxRunErr' = CancelRun("canceled")
    /\ UNCHANGED <<chIter, chPc, chI, sent, completed, coPc,
                   cfgVars, logVars, argVars, runVars>>

\* completed < 2 is false: the loop exits and "workload complete" is printed.
CoComplete ==
    /\ coPc = "loop"
    /\ completed >= 2
    /\ coPc' = "complete"
    /\ UNCHANGED <<chIter, chPc, chI, errCh, sent, printed, completed, ctxRunErr,
                   cfgVars, logVars, argVars, runVars>>

InitChan == ChanInit /\ RunIdle /\ ConfigIdle /\ LogIdle /\ ArgsIdle

NextChan ==
    \/ ChDeadline
    \/ ChWriterDDL
    \/ \E s \in Streams : ChCheck(s)
    \/ \E s \in Streams : ChQuery(s)
    \/ \E s \in Streams : ChSleep(s)
    \/ CoRecvDone
    \/ CoRecvErr
    \/ CoComplete

SpecChan == InitChan /\ [][NextChan]_vars

\* ---- safeArgs: the arguments of a query in the tracer's start line ---------
\* Strings are sequences of tokens, as above. An argument is a Go value: an
\* int, a string, nil, a slice of ints, a NaN float or a channel.

MaxArgs == 3

Quote == "\""

StringSamples ==
    {<<"a">>, <<"a", ",", " ", "b">>, <<"<", "unmarshalable", ">">>,
     <<Quote, ",", " ", Quote>>}

ArgValues ==
    {[kind |-> "int", v |-> <<"1">>], [kind |-> "nil", v |-> <<>>],
     [kind |-> "ints", v |-> <<"1", "2">>], [kind |-> "nan", v |-> <<>>],
     [kind |-> "chan", v |-> <<>>]}
    \cup {[kind |-> "string", v |-> s] : s \in StringSamples}

\* encoding/json's string encoding: quotes and backslash-escapes, and the
\* HTML-sensitive characters as \u escapes.
EscapeToken(c) ==
    IF c = Quote THEN "\\\""
    ELSE IF c = "<" THEN "\\u003c"
    ELSE IF c = ">" THEN "\\u003e"
    ELSE c

RECURSIVE JoinWith(_, _)
\* strings.Join(vals, sep)
JoinWith(vals, sep) ==
    IF vals = <<>> THEN <<>>
    ELSE IF Len(vals) = 1 THEN vals[1]
    ELSE vals[1] \o sep \o JoinWith(Tail(vals), sep)

\* json.Marshal(a): the error, or the JSON text.
Marshal(a) ==
    IF a.kind \in {"nan", "chan"} THEN [err |-> TRUE, b |-> <<>>]
    ELSE [err |-> FALSE,
          b |-> IF a.kind = "int" THEN a.v
                ELSE IF a.kind = "nil" THEN <<"null">>
                ELSE IF a.kind = "ints"
                THEN <<"[">> \o JoinWith([k \in 1..Len(a.v) |-> <<a.v[k]>>], <<",">>) \o <<"]">>
                ELSE <<Quote>> \o [k \in 1..Len(a.v) |-> EscapeToken(a.v[k])] \o <<Quote>>]

Unmarshalable == <<"<", "unmarshalable", ">">>

\* Mutant of Val: a failed argument gets no entry text (the loop goes on to
\* vals[i] = string(b) with b empty).
Val_NoContinue(a) == Marshal(a).b

\* One pass of the loop body: vals[i] for argument a.
Val(a) == IF Marshal(a).err THEN Unmarshalable ELSE Marshal(a).b

\* safeArgs(args): "[" + strings.Join(vals, ", ") + "]"
safeArgs(as) ==
    <<"[">> \o JoinWith([k \in 1..Len(as) |-> Val(as[k])], <<",", " ">>) \o <<"]">>

ArgsInit ==
    /\ args \in {<<>>} \cup Seqs(ArgValues, MaxArgs)
    /\ argsLine = <<>>

\* TraceQueryStart: args := safeArgs(data.Args)
TraceArgs ==
    /\ argsLine = <<>>
    /\ argsLine' = safeArgs(args)
    /\ UNCHANGED <<args, cfgVars, logVars, chanVars, runVars>>

InitArgs == ArgsInit /\ RunIdle /\ ConfigIdle /\ LogIdle /\ ChanIdle

NextArgs == TraceArgs

SpecArgs == InitArgs /\ [][NextArgs]_vars

\* ---- properties ---------------------------------------------------------

Launched == pc["reader"] # "idle"

Returned(s) == ret[s] # "none"

NonNil(e) == e \notin {"none", "nil"}

\* C1: a round's barrier (grp.Wait) does not release before all C invocations
\* dispatched in that round have finished, also when gctx is cancelled while
\* the round is in flight: a stream past its barrier has dispatched all C
\* invocations of the round and none of them is outstanding.
C1_BarrierWaitsForAll ==
    \A s \in Streams :
        /\ pc[s] \in {"sleep", "check", "done"} => inflight[s] = {}
        /\ pc[s] = "sleep" => j[s] = Conc(s)

\* C1 witness: the scope was cancelled while the round was at its barrier, and
\* the barrier has since released with every invocation finished.
C1_Witness ==
    \E s \in Streams :
        /\ atCancel[s] = "wait"
        /\ pc[s] = "sleep"
        /\ Conc(s) >= 2
        /\ inflight[s] = {}

\* C2: rounds of a stream are strictly sequential: every outstanding invocation
\* belongs to the stream's current round, so at most C are in flight.
C2_RoundsSequential ==
    \A s \in Streams :
        /\ \A m \in inflight[s] : m[1] = i[s]
        /\ Cardinality(inflight[s]) <= Conc(s)
        /\ pc[s] \in {"fanout", "wait"} => rounds[s] = i[s] + 1

\* C2 witness: a later round of a stream with all C >= 2 invocations in flight.
C2_Witness ==
    \E s \in Streams :
        /\ i[s] >= 1
        /\ Conc(s) >= 2
        /\ Cardinality(inflight[s]) = Conc(s)

\* C3: if gctx is not cancelled while the reader runs, the reader executes
\* exactly Iterations rounds of ReaderConc invocations each and returns nil,
\* however many invocations fail.
C3_ReaderExactRounds ==
    (pc["reader"] = "done" /\ (~gctxDone \/ atCancel["reader"] = "done"))
        => /\ ret["reader"] = "nil"
           /\ rounds["reader"] = cfg.Iterations
           /\ dispatched["reader"] = cfg.Iterations * cfg.ReaderConc

\* C3 witness: the reader completed several rounds under a live scope, every
\* invocation of its last round having failed.
C3_Witness ==
    /\ pc["reader"] = "done"
    /\ ~gctxDone
    /\ cfg.Iterations >= 2
    /\ cfg.ReaderConc >= 2
    /\ failed["reader"] = cfg.ReaderConc

\* C4: a failed query invocation is never escalated: the step in which a query
\* fails records no error in the round's group, cancels neither the round's
\* scope nor the shared scope, and leaves the owning stream where it is; no
\* round's group ever holds an error.
C4_FailureStep ==
    \A s \in Streams :
        failed'[s] > failed[s]
            => /\ grpErr'[s] = "nil"
               /\ grpCancelled'[s] = grpCancelled[s]
               /\ gctxErr' = gctxErr
               /\ gErr' = gErr
               /\ pc' = pc
               /\ ret' = ret

\* C4: no round's group ever holds an error, and every step in which a query
\* fails satisfies C4_FailureStep (the failure is not escalated).
C4_QueryFailureNotEscalated ==
    /\ [](\A s \in Streams : grpErr[s] = "nil")
    /\ [][C4_FailureStep]_vars

\* C4 witness: after a round in which every invocation failed, the stream is
\* at the top of its next round with the shared scope live.
C4_Witness ==
    \E s \in Streams :
        /\ failed[s] = Conc(s)
        /\ pc[s] = "check"
        /\ i[s] = 1
        /\ cfg.Iterations >= 2
        /\ ~gctxDone

\* C5: if the writer's schema statement fails, the writer dispatches no upsert,
\* returns a non-nil error and the shared scope is cancelled; from then on the
\* reader begins no further round.
C5_State ==
    ddl = "failed"
        => /\ dispatched["writer"] = 0
           /\ rounds["writer"] = 0
           /\ NonNil(ret["writer"])
           /\ gctxDone
           /\ gErr # "nil"

\* C5: C5_State always holds, and once the schema statement has failed the
\* reader begins no further round.
C5_SchemaFailureStopsRun ==
    /\ []C5_State
    /\ [][ddl = "failed" => rounds'["reader"] = rounds["reader"]]_vars

\* C5 witness: the schema failure cancelled the scope while the reader was in
\* a round; the reader finished that round and stopped with context.Canceled.
C5_Witness ==
    /\ ddl = "failed"
    /\ gErr = "DDL"
    /\ atCancel["reader"] \in {"fanout", "wait"}
    /\ ret["reader"] = "canceled"

\* C6: a stream returning a non-nil error leaves the shared scope cancelled,
\* and under a cancelled scope the sibling passes no check point into new
\* work: the top-of-round check ends the stream, the sleep never leads to a
\* fan-out.
C6_Step ==
    /\ \A s \in Streams :
        (~Returned(s) /\ NonNil(ret'[s])) => gctxErr' # "none"
    /\ gctxDone =>
        \A s \in Streams :
            /\ (pc[s] = "check" /\ pc'[s] # "check") => pc'[s] = "done"
            /\ pc[s] = "sleep" => pc'[s] \in {"sleep", "check", "done"}

C7_State ==
    (pcMain = "returned" /\ Launched)
        => /\ \A s \in Streams : Returned(s)
           /\ runResult = gErr
           /\ (runResult = "nil") <=> (\A s \in Streams : ret[s] = "nil")

C7_ErrStep ==
    /\ gErr # "nil" => gErr' = gErr
    /\ (gErr = "nil" /\ gErr' # "nil")
        => \E s \in Streams : ~Returned(s) /\ ret'[s] = gErr'

\* C7: C7_State always holds and g.err is set once, by the returning stream.
C7_RunReportsFirstError == []C7_State /\ [][C7_ErrStep]_vars

\* C7 witness: the reader returned the deadline error first, the writer then
\* failed its schema statement, and run returned the reader's error.
C7_Witness ==
    /\ pcMain = "returned"
    /\ ret["reader"] = "deadline"
    /\ ret["writer"] = "DDL"
    /\ runResult = "deadline"

\* C8: a stream whose round was in flight (fan-out dispatched, barrier not yet
\* cleared) when the shared scope was cancelled ends Cancelled, never nil.
C8_MidRoundCancelEndsCancelled ==
    \A s \in Streams :
        (atCancel[s] = "wait" /\ pc[s] = "done") => NonNil(ret[s])

\* C9 as stated: no query invocation is dispatched once the shared scope is
\* cancelled.
C9_NoDispatchAfterCancel == [][gctxDone => dispatched' = dispatched]_vars

\* C9 amended: once the shared scope is cancelled no stream begins a new round;
\* invocations are dispatched only by a fan-out loop that was already running,
\* and cancelling the scope removes no invocation already in flight.
C9_Step ==
    /\ gctxDone =>
        /\ rounds' = rounds
        /\ \A s \in Streams : dispatched'[s] > dispatched[s] => pc[s] = "fanout"
    /\ gctxErr' # gctxErr => inflight' = inflight

\* C9 amended: every step satisfies C9_Step (no new round after cancellation).
C9_NoNewRoundAfterCancel == [][C9_Step]_vars

\* C9 witness: the scope was cancelled during a fan-out loop, which went on to
\* dispatch the rest of its round.
C9_Witness ==
    \E s \in Streams :
        /\ atCancel[s] = "fanout"
        /\ pc[s] = "wait"
        /\ Cardinality(inflight[s]) = Conc(s)
        /\ Conc(s) >= 2

\* C10: the reader returns a non-nil error only when the shared scope is
\* already cancelled, so its return never changes the state of the scope.
C10_Step ==
    (pc["reader"] # "done" /\ pc'["reader"] = "done")
        => /\ NonNil(ret'["reader"]) => gctxDone
           /\ gctxErr' = gctxErr

\* C10: every step in which the reader returns satisfies C10_Step.
C10_ReaderNeverCancels == [][C10_Step]_vars

\* C10 witness: the reader's error is the one the group recorded first, the
\* scope having been cancelled by the deadline before.
C10_Witness ==
    /\ ret["reader"] = "deadline"
    /\ gErr = "deadline"
    /\ ~Returned("writer")

\* C11: the writer issues the schema-ensuring statement once (its outcome,
\* once recorded, never changes, and a writer past that step has an outcome),
\* and upserts are dispatched only after it completed successfully.
C11_State ==
    /\ (rounds["writer"] > 0 \/ dispatched["writer"] > 0) => ddl = "ok"
    /\ pc["writer"] \notin {"idle", "ddl"} => ddl # "none"
    /\ pc["writer"] \in {"idle", "ddl"} => ddl = "none"

C11_SchemaOnceBeforeUpserts ==
    []C11_State /\ [][ddl # "none" => ddl' = ddl]_vars

\* C11 witness: the writer is dispatching a later round after a successful
\* schema statement.
C11_Witness ==
    /\ ddl = "ok"
    /\ rounds["writer"] >= 2
    /\ inflight["writer"] # {}

\* C12: when run has returned no pool it created is still open, the pools were
\* closed writer first, then reader, each once, and a pool is closed only
\* when run has returned with no stream or invocation running.
C12_PoolsClosedInReverse ==
    /\ pcMain = "returned" =>
        /\ \A s \in Streams : pool[s] # "open"
        /\ closeLog = (IF pool["writer"] = "closed" THEN <<"writer">> ELSE <<>>)
                        \o (IF pool["reader"] = "closed" THEN <<"reader">> ELSE <<>>)
    /\ pcMain # "returned" => closeLog = <<>>
    /\ \A s \in Streams :
        pool[s] = "closed" =>
            /\ pcMain = "returned"
            /\ \A u \in Streams : pc[u] \in {"idle", "done"} /\ inflight[u] = {}

\* C12 witness: run returned a stream error with both pools closed, the
\* writer pool first.
C12_Witness ==
    /\ pcMain = "returned"
    /\ runResult = "DDL"
    /\ closeLog = <<"writer", "reader">>

\* C13: when run has returned, both streams and every fan-out invocation have
\* terminated and the health poll goroutine has stopped.
C13_NoTaskOutlivesRun ==
    pcMain = "returned" =>
        /\ \A s \in Streams : pc[s] \in {"idle", "done"} /\ inflight[s] = {}
        /\ poll # "running"

\* C14: if creating the health checker or a pool failed, run has returned that
\* error, no stream was started and no statement or query was issued.
C14_CreationFailureStartsNothing ==
    /\ poll = "failed" => (pcMain = "returned" /\ runResult = "create health tracker")
    /\ pool["reader"] = "failed" =>
        (pcMain = "returned" /\ runResult = "create reader pool")
    /\ pool["writer"] = "failed" =>
        (pcMain = "returned" /\ runResult = "create writer pool")
    /\ (poll = "failed" \/ \E s \in Streams : pool[s] = "failed") =>
        /\ \A s \in Streams : pc[s] = "idle" /\ dispatched[s] = 0 /\ rounds[s] = 0
        /\ ddl = "none"

\* C14 witness: the writer pool could not be created after the reader pool
\* was; run returned the error and closed the reader pool.
C14_Witness ==
    /\ pool["writer"] = "failed"
    /\ pool["reader"] = "closed"
    /\ runResult = "create writer pool"

\* ---- properties of the configuration steps ------------------------------

Parsed == pcCfg \in {"validate", "run", "sized", "fatal"}

\* max(1, v) for v >= 0
AtLeastOne(v) == IF IsPositive(v) THEN v ELSE GoInt(1)

\* v >= 0 is within the int32 range.
FitsInt32(v) == v.hi = 0

\* C15: the size given to the writer pool is max(1, floor(readerMaxConns / 3))
\* when writerMaxConns is unset (0), and writerMaxConns when it is > 0.
C15_WriterPoolSize ==
    pcCfg = "sized" =>
        GoInt(maxConns["writer"]) =
            (IF IsPositive(parsed.WriterMax) THEN parsed.WriterMax
             ELSE AtLeastOne(Div3(parsed.ReaderMax)))

TwoFormOptions ==
    {<<"Iterations", "iterations", "i">>, <<"Timeout", "timeout", "t">>,
     <<"ReaderMax", "reader-max-conns", "r">>, <<"WriterMax", "writer-max-conns", "w">>,
     <<"ReaderSleep", "reader-sleep", "rs">>, <<"WriterSleep", "writer-sleep", "ws">>}

OneFormOptions ==
    {<<"ReaderConc", "reader-conc", "reader-conc">>,
     <<"WriterConc", "writer-conc", "writer-conc">>}

DefaultOf(field) ==
    CASE field = "Iterations" -> GoInt(defaultIterations)
      [] field = "Timeout" -> GoInt(defaultTimeout)
      [] field = "ReaderMax" -> GoInt(defaultReaderMaxConns)
      [] field = "WriterMax" -> Zero
      [] field = "ReaderSleep" -> GoInt(defaultReaderSleep)
      [] field = "WriterSleep" -> GoInt(defaultWriterSleep)
      [] OTHER -> GoInt(defaultConcurrency)

\* C16: for each option with a long and a short form the parsed value is the
\* long form's when both are set and non-zero, that of the form that is set
\* when only one is, and the default when neither is.
C16_LongFormWins ==
    Parsed =>
        \A o \in TwoFormOptions :
            LET long == flags[o[2]]
                short == flags[o[3]]
            IN  /\ (long # Zero /\ short # Zero) => parsed[o[1]] = long
                /\ (long # Zero /\ short = Zero) => parsed[o[1]] = long
                /\ (long = Zero /\ short # Zero) => parsed[o[1]] = short
                /\ (long = Zero /\ short = Zero) => parsed[o[1]] = DefaultOf(o[1])

\* The value the user supplied for an option: its long form, else its short.
Supplied(o) == IF flags[o[2]] # Zero THEN flags[o[2]] ELSE flags[o[3]]

RequiredFields == {"Iterations", "Timeout", "ReaderMax", "ReaderConc", "WriterConc"}

\* C17: an explicit override wins over the default: a non-zero value supplied
\* for an option (a negative one too) is the option's parsed value, and a
\* non-positive value supplied for a required field makes validation fail.
C17_OverrideWins ==
    \A o \in TwoFormOptions \cup OneFormOptions :
        Supplied(o) # Zero =>
            /\ Parsed => parsed[o[1]] = Supplied(o)
            /\ (cfgErr # "none" /\ o[1] \in RequiredFields /\ ~IsPositive(Supplied(o)))
                => cfgErr # "nil"

\* C20: the writer-max-conns value of run's config log line is the size given
\* to the writer pool (stated for connection counts that fit int32, where the
\* narrowing of C15 plays no part).
C20_LoggedWriterMaxIsPoolSize ==
    (pcCfg = "sized" /\ FitsInt32(parsed.ReaderMax) /\ FitsInt32(parsed.WriterMax))
        => logged = GoInt(maxConns["writer"])


\* The descriptor of dsnParts with another password component.
WithPassword(p, pw) == Compose([p EXCEPT !.hasPw = TRUE, !.pw = pw])

\* What the claim lets the rendering be built from: host (with its port),
\* database path and user name.
FromHostPathUser(p) ==
    Sprintf(p.host \o (IF p.port # <<>> THEN <<":">> \o p.port ELSE <<>>),
            IF p.form = "url" /\ p.db = <<>> THEN <<>> ELSE <<"/">> \o p.db,
            unescape(p.user))

\* C18: the rendering of the descriptor in the log does not depend on the
\* password: the descriptor with any other password renders to the same
\* string, and the string is built from host, database path and user name only
\* (or is the "<invalid dsn>" marker).
C18_RenderingIgnoresPassword ==
    dsnInfo # <<>> =>
        /\ dsnParts.hasUser =>
               \A pw \in Passwords : redactedDSNInfo(WithPassword(dsnParts, pw)) = dsnInfo
        /\ dsnInfo \in {<<"<invalid dsn>">>, FromHostPathUser(dsnParts)}

\* The same for descriptors in URL form, where it holds.
C18_URLFormIgnoresPassword ==
    (dsnInfo # <<>> /\ dsnParts.form = "url") =>
        /\ dsnParts.hasUser =>
               \A pw \in Passwords : redactedDSNInfo(WithPassword(dsnParts, pw)) = dsnInfo
        /\ dsnInfo \in {<<"<invalid dsn>">>, FromHostPathUser(dsnParts)}

\* The places in the log of the lines of a kind that query q caused.
LinesOf(q, kind) ==
    {k \in 1..Len(traceLog) : traceLog[k].q = q /\ traceLog[k].kind = kind}

\* C19: every query execution has exactly one start line and, once it has
\* ended, exactly one end line after its start line; an execution still
\* running has no end line, and a query not yet executed has no line.
C19_OneStartOneEndInOrder ==
    \A q \in Queries :
        /\ Cardinality(LinesOf(q, "start")) = (IF qstate[q] = "idle" THEN 0 ELSE 1)
        /\ Cardinality(LinesOf(q, "end")) = (IF qstate[q] = "done" THEN 1 ELSE 0)
        /\ \A s \in LinesOf(q, "start"), e \in LinesOf(q, "end") : s < e

\* Two executions that overlap, one of them ending in an error: the lines
\* interleave (start 1, start 2, end 1, end 2).
C19_Witness ==
    \E q1, q2 \in Queries :
        /\ q1 # q2
        /\ qstate[q1] = "done" /\ qstate[q2] = "done"
        /\ \E s1 \in LinesOf(q1, "start"), s2 \in LinesOf(q2, "start"),
              e1 \in LinesOf(q1, "end"), e2 \in LinesOf(q2, "end") :
                /\ s1 < s2 /\ s2 < e1 /\ e1 < e2
                /\ traceLog[e1].result = "err"

\* C21 as stated: a stream whose last barrier had cleared when the shared
\* scope was cancelled (it had begun all its rounds and was in the select after
\* the barrier, or beyond) ends Completed (nil).
C21_LastBarrierThenCompleted ==
    \A s \in Streams :
        (/\ Returned(s)
         /\ rounds[s] = cfg.Iterations
         /\ atCancel[s] \in {"sleep", "check", "done"}) => ret[s] = "nil"

\* A stream returns nil only with all its rounds and their delays behind it.
C21_State ==
    \A s \in Streams :
        ret[s] = "nil" => (i[s] = cfg.Iterations /\ rounds[s] = cfg.Iterations)

\* Once the delay of the last round has elapsed the stream returns nil, also
\* under a cancelled scope; a stream that leaves a delay by returning does so
\* under a cancelled scope and with the scope's error.
C21_Step ==
    \A s \in Streams :
        /\ (pc[s] = "check" /\ LoopDone(s) /\ pc'[s] = "done") => ret'[s] = "nil"
        /\ (pc[s] = "sleep" /\ pc'[s] = "done") => (gctxDone /\ ret'[s] = gctxErr)

\* C21: the terminal state is Completed once the delay after the last barrier
\* has elapsed, whatever happens to the scope afterwards; a cancellation that
\* reaches the stream in that delay ends it Cancelled.
C21_LastDelayElapsedThenCompleted == []C21_State /\ [][C21_Step]_vars

\* Both cases: the reader was cancelled in the delay after its last barrier
\* and ended with the deadline error; the writer's last delay had elapsed when
\* the deadline came, and it ended with nil.
C21_Witness ==
    /\ gctxErr = "deadline"
    /\ atCancel["reader"] = "sleep" /\ rounds["reader"] = cfg.Iterations
    /\ ret["reader"] = "deadline"
    /\ atCancel["writer"] = "check" /\ ret["writer"] = "nil"

\* C22: from every state in which the group is running, the states after the
\* deadline included, both streams return and run returns, whatever the
\* configuration and however long queries take while their context is live.
C22_RunTerminates ==
    (pcMain = "gwait") ~> (StreamsDone /\ pcMain = "returned")

\* The deadline elapsed while both streams were waiting at a barrier for
\* invocations that had not ended, and run has returned the deadline error.
C22_Witness ==
    /\ pcMain = "returned"
    /\ runResult = "deadline"
    /\ \A s \in Streams : atCancel[s] = "wait" /\ ret[s] = "deadline"

\* C23: when the coordinator prints the completion marker, every error a
\* stream sent on errCh has been received and printed, the run scope has been
\* cancelled for it, and errCh holds no unread error.
C23_NoErrorLeftUnread ==
    coPc = "complete" =>
        /\ errCh = <<>>
        /\ printed = sent
        /\ sent # <<>> => ctxRunErr # "none"

RECURSIVE SplitEntries(_, _, _, _, _)
\* The entries of a rendering's body: the texts between the separators ", "
\* that are outside string quotes.
SplitEntries(s, k, inQuote, cur, acc) ==
    IF k > Len(s) THEN Append(acc, cur)
    ELSE IF ~inQuote /\ s[k] = "," /\ k < Len(s) /\ s[k + 1] = " "
    THEN SplitEntries(s, k + 2, FALSE, <<>>, Append(acc, cur))
    ELSE SplitEntries(s, k + 1, IF s[k] = Quote THEN ~inQuote ELSE inQuote,
                      Append(cur, s[k]), acc)

\* What a reader of the log line finds as the entries of a rendering.
Entries(line) ==
    IF Len(line) <= 2 THEN <<>>
    ELSE SplitEntries(SubSeq(line, 2, Len(line) - 1), 1, FALSE, <<>>, <<>>)

\* C24: the rendering of safeArgs is a bracketed list with exactly one entry
\* per argument, in the order of the arguments: the marker <unmarshalable> for
\* an argument json.Marshal fails on, the argument's JSON text for any other,
\* whatever the other arguments are.
C24_OneEntryPerArgument ==
    argsLine # <<>> =>
        /\ Head(argsLine) = "[" /\ argsLine[Len(argsLine)] = "]"
        /\ Entries(argsLine) =
               [k \in 1..Len(args) |->
                   IF args[k].kind \in {"nan", "chan"} THEN Unmarshalable
                   ELSE Marshal(args[k]).b]

\* Three arguments, the middle one unserializable, the others a string that
\* holds the separator and an int.
C24_Witness ==
    /\ Len(args) = 3
    /\ args[1] = [kind |-> "string", v |-> <<"a", ",", " ", "b">>]
    /\ args[2].kind = "chan"
    /\ args[3].kind = "int"
    /\ Entries(argsLine) = <<Val(args[1]), Unmarshalable, <<"1">>>>
====
